---------------------------- MODULE Spec2Model ----------------------------
(***************************************************************************)
(* Model of the OpenID Connect relying-party views of django-oidc-rp       *)
(* (src/oidc_rp/views.py): OIDCAuthRequestView.get, OIDCAuthCallbackView   *)
(* .get and OIDCEndSessionView.                                            *)
(*                                                                         *)
(* The per-browser session store is a key-value store whose get / set /    *)
(* pop operations are atomic.  Spec handles the requests one at a time     *)
(* (each view's get is one step).  SpecConc runs callback requests         *)
(* concurrently: a callback is a process whose accesses to the session     *)
(* store (the get of line 81, the pop of line 86, the login of line 102)   *)
(* are separate steps, interleaving in every order.                        *)
(***************************************************************************)
EXTENDS Naturals, Sequences, FiniteSets, TLC

\* ---------------------------------------------------------------- bounds
NumTokens == 2      \* distinct values get_random_string can return
MaxCount == 2       \* the history counters saturate here

\* ---------------------------------------------------------------- values
None == "None"
Tokens == {"t" \o ToString(i) : i \in 1..NumTokens}
\* two browser sessions: the views reach the session store only through
\* request.session, so a session stands for any other one
Sessions == {"browser_a", "browser_b"}
\* SpecConc: two callback requests in flight at the same time, both of
\* the same browser session
Requests == {"request_1", "request_2"}
ConcSessions == {"browser_a"}
\* SpecSupersede: the session whose overwritten states are remembered
TrackedSessions == {"browser_a"}
NoSession == None

\* what auth.authenticate can do: return None, return a user whose
\* is_active is False, return a user whose is_active is True, or raise
VerifierAnswers == {"no_user", "inactive_user", "active_user", "raises"}

\* request.GET of a callback: 'code' and 'state' each absent (None) or given
CallbackParams == [code : {None, "code"}, state : {None} \cup Tokens]
NoParams == [code |-> None, state |-> None]

EmptySession == [oidc_auth_state |-> None, oidc_auth_nonce |-> None, user |-> None]
NoHistory == [nonce_reads |-> 0, verifier_calls |-> 0, logins |-> 0]
NoResponse ==
    [view |-> None, sid |-> NoSession, url |-> None, query |-> <<>>,
     params |-> NoParams, state |-> None, nonce |-> None,
     verifier |-> None, login |-> None, outcome |-> None]

VARIABLES
    USE_NONCE,                      \* oidc_rp_settings.USE_NONCE
    PROVIDER_END_SESSION_ENDPOINT,  \* oidc_rp_settings.PROVIDER_END_SESSION_ENDPOINT
    session,      \* the session store: per browser session, its keys
    response,     \* what the request handled by the last step did and returned
    since_init,   \* per session, since its last authorization request: the
                  \* pops that returned a nonce, the calls of auth.authenticate
                  \* and of auth.login (history, saturating at MaxCount)
    pc,           \* per concurrent callback request: where it is
    sid,          \* per concurrent callback request: its session
    state,        \* per concurrent callback request: local `state` (line 81)
    nonce,        \* per concurrent callback request: local `nonce` (line 86)
    stale,        \* per concurrent callback request: an authorization request
                  \* of its session was handled after its pop (history)
    superseded    \* per session: a state stored by an earlier authorization
                  \* request that a later one overwrote (history, kept by
                  \* SpecSupersede only)

vars == <<USE_NONCE, PROVIDER_END_SESSION_ENDPOINT, session, response,
          since_init, pc, sid, state, nonce, stale, superseded>>

config == <<USE_NONCE, PROVIDER_END_SESSION_ENDPOINT>>
request_vars == <<pc, sid, state, nonce, stale>>

Inc(n) == IF n < MaxCount THEN n + 1 ELSE n

\* ------------------------------------------------ OIDCAuthRequestView.get

\* authentication_request_params (lines 38-50), in insertion order
AuthenticationRequestParams(st, n) ==
    << <<"scope", "SCOPES">>,
       <<"response_type", "code">>,
       <<"client_id", "CLIENT_ID">>,
       <<"redirect_uri", "absolute:oidc_auth_callback">>,
       <<"state", st>> >>
    \o (IF USE_NONCE THEN << <<"nonce", n>> >> ELSE <<>>)

\* mutant: the nonce is not stored in the session
MutNonceNotStored(sess, st, n) == [sess EXCEPT !.oidc_auth_state = st]

\* mutant: a state already stored is kept (setdefault instead of assignment)
MutKeepExistingState(sess, st, n) ==
    [sess EXCEPT !.oidc_auth_nonce = IF USE_NONCE THEN n ELSE @,
                 !.oidc_auth_state = IF @ # None THEN @ ELSE st]

\* mutant: a nonce is stored only when no flow is pending in the session
MutNonceOnlyFirstTime(sess, st, n) ==
    [sess EXCEPT !.oidc_auth_nonce =
                     IF USE_NONCE /\ sess.oidc_auth_state = None THEN n ELSE @,
                 !.oidc_auth_state = st]

\* the session after lines 48-54
StoreArtifacts(sess, st, n) ==
    [sess EXCEPT !.oidc_auth_nonce = IF USE_NONCE THEN n ELSE @,
                 !.oidc_auth_state = st]

\* urlencode and '{url}?{query}' (lines 57-59): the endpoint, then the
\* key=value pairs in order
RedirectUrl(params) ==
    [url |-> "PROVIDER_AUTHORIZATION_ENDPOINT", query |-> params]

\* a query string parsed back: its keys, and the value of a key
QueryKeys(q) == {q[i][1] : i \in DOMAIN q}
QueryValue(q, k) == q[CHOOSE i \in DOMAIN q : q[i][1] = k][2]

\* mutant: the state is kept in one place for all the sessions
MutAuthRequestSharedState(s) ==
    \E st \in Tokens, n \in Tokens :
        LET redirect == RedirectUrl(AuthenticationRequestParams(st, n)) IN
        /\ session' = [t \in Sessions |->
                          IF t = s THEN StoreArtifacts(session[t], st, n)
                          ELSE [session[t] EXCEPT !.oidc_auth_state = st]]
        /\ response' = [NoResponse EXCEPT !.view = "auth_request", !.sid = s,
                           !.url = redirect.url, !.query = redirect.query]
        /\ since_init' = [since_init EXCEPT ![s] = NoHistory]
        /\ stale' = [r \in Requests |->
                        stale[r] \/ (sid[r] = s /\ pc[r] = "check")]
        /\ UNCHANGED <<config, pc, sid, state, nonce>>

AuthRequest(s) ==
    \E st \in Tokens, n \in Tokens :
        LET redirect == RedirectUrl(AuthenticationRequestParams(st, n)) IN
        /\ session' = [session EXCEPT ![s] = StoreArtifacts(@, st, n)]
        /\ response' = [NoResponse EXCEPT !.view = "auth_request", !.sid = s,
                           !.url = redirect.url, !.query = redirect.query]
        /\ since_init' = [since_init EXCEPT ![s] = NoHistory]
        /\ stale' = [r \in Requests |->
                        stale[r] \/ (sid[r] = s /\ pc[r] = "check")]
        /\ UNCHANGED <<config, pc, sid, state, nonce>>

\* ----------------------------------------------- OIDCAuthCallbackView.get

\* mutant: the nonce is read and left in the session
MutGetNonce(sess) == sess

\* mutant: the pop also removes the stored state
MutPopNonceAndState(sess) ==
    [sess EXCEPT !.oidc_auth_nonce = None, !.oidc_auth_state = None]

\* request.session.pop('oidc_auth_nonce', None): the session afterwards
PopNonce(sess) == [sess EXCEPT !.oidc_auth_nonce = None]

\* mutant: the stored state is not required
MutStateNotRequired(n, params, st) ==
    /\ (n # None /\ USE_NONCE) \/ ~USE_NONCE
    /\ params.code # None /\ params.state # None

\* mutant: a nonce is required whatever USE_NONCE is
MutNonceAlwaysRequired(n, params, st) ==
    /\ n # None
    /\ params.code # None /\ params.state # None
    /\ st # None

\* lines 91-92
CombinedPrecondition(n, params, st) ==
    /\ (n # None /\ USE_NONCE) \/ ~USE_NONCE
    /\ params.code # None /\ params.state # None
    /\ st # None

\* mutant: the state is not compared
MutNoStateCheck(params, st) == FALSE

\* line 96
StateMismatch(params, st) == params.state # st

\* mutant: is_active is not looked at
MutAnyUser(u) == u \in {"active_user", "inactive_user"}

\* line 101: user and user.is_active
UserAccepted(u) == u = "active_user"

\* mutant: auth.authenticate is called before the state is compared
MutVerifierBeforeStateCheck(n, params, st) == CombinedPrecondition(n, params, st)

\* lines 91-100: whether auth.authenticate is called
CallsVerifier(n, params, st) ==
    CombinedPrecondition(n, params, st) /\ ~StateMismatch(params, st)

\* mutant: a state mismatch ends in the failure redirect
MutMismatchRedirects(n, params, st, answer) ==
    IF CombinedPrecondition(n, params, st) /\ ~StateMismatch(params, st)
    THEN IF answer = "raises" THEN "exception"
         ELSE IF UserAccepted(answer) THEN "success"
         ELSE "failure"
    ELSE "failure"

\* mutant: the state is compared before the other conditions are looked at
MutStateComparedFirst(n, params, st, answer) ==
    IF params.state # None /\ st # None /\ StateMismatch(params, st)
    THEN "SuspiciousOperation"
    ELSE IF CombinedPrecondition(n, params, st)
    THEN IF answer = "raises" THEN "exception"
         ELSE IF UserAccepted(answer) THEN "success"
         ELSE "failure"
    ELSE "failure"

\* lines 91-105: how the callback ends, `answer` being what
\* auth.authenticate does when it is called
CallbackOutcome(n, params, st, answer) ==
    IF CombinedPrecondition(n, params, st)
    THEN IF StateMismatch(params, st) THEN "SuspiciousOperation"
         ELSE IF answer = "raises" THEN "exception"
         ELSE IF UserAccepted(answer) THEN "success"
         ELSE "failure"
    ELSE "failure"

\* line 100: auth.authenticate answers when it is called
Answers(n, params, st) ==
    IF CallsVerifier(n, params, st) THEN VerifierAnswers ELSE {None}

\* the redirect of lines 103 and 105; no redirect when the view raises
CallbackUrl(out) ==
    CASE out = "success" -> "AUTHENTICATION_REDIRECT_URI"
      [] out = "failure" -> "AUTHENTICATION_FAILURE_REDIRECT_URI"
      [] OTHER -> None

\* lines 91-105 with locals n, st: what the request did and returned
CallbackResponse(s, n, params, st, answer) ==
    LET out == CallbackOutcome(n, params, st, answer) IN
    [NoResponse EXCEPT
        !.view = "callback", !.sid = s, !.url = CallbackUrl(out),
        !.params = params, !.state = st, !.nonce = n,
        !.verifier = IF CallsVerifier(n, params, st) THEN answer ELSE None,
        !.login = IF out = "success" THEN answer ELSE None,
        !.outcome = out]

\* mutant: a callback that does not log in logs out
MutLoginOrLogout(sess, resp) == [sess EXCEPT !.user = resp.login]

\* auth.login (line 102): the session afterwards
Login(sess, resp) ==
    IF resp.login # None THEN [sess EXCEPT !.user = resp.login] ELSE sess

\* the history counters after a callback
Count(h, popped, resp) ==
    [nonce_reads |-> IF popped # None THEN Inc(h.nonce_reads) ELSE h.nonce_reads,
     verifier_calls |-> IF resp.verifier # None THEN Inc(h.verifier_calls)
                        ELSE h.verifier_calls,
     logins |-> IF resp.login # None THEN Inc(h.logins) ELSE h.logins]

\* mutant: the nonce is removed only by a callback that logs in
MutCallbackPopOnSuccess(s) ==
    \E params \in CallbackParams :
      \E answer \in Answers(session[s].oidc_auth_nonce, params,
                            session[s].oidc_auth_state) :
        LET st == session[s].oidc_auth_state
            n == session[s].oidc_auth_nonce
            resp == CallbackResponse(s, n, params, st, answer)
        IN
        /\ session' = [session EXCEPT ![s] =
                          IF resp.login # None THEN Login(PopNonce(@), resp) ELSE @]
        /\ response' = resp
        /\ since_init' = [since_init EXCEPT ![s] = Count(@, n, resp)]
        /\ UNCHANGED <<config, request_vars>>

\* lines 75-105, the whole request
Callback(s) ==
    \E params \in CallbackParams :
      \E answer \in Answers(session[s].oidc_auth_nonce, params,
                            session[s].oidc_auth_state) :
        LET st == session[s].oidc_auth_state
            n == session[s].oidc_auth_nonce
            resp == CallbackResponse(s, n, params, st, answer)
        IN
        /\ session' = [session EXCEPT ![s] = Login(PopNonce(@), resp)]
        /\ response' = resp
        /\ since_init' = [since_init EXCEPT ![s] = Count(@, n, resp)]
        /\ UNCHANGED <<config, request_vars>>

\* the same request as a process of SpecConc.
\* lines 75-81: the request arrives and reads the stored state
CallbackGetState(r) ==
    /\ pc[r] = "idle"
    /\ \E s \in ConcSessions :
        /\ sid' = [sid EXCEPT ![r] = s]
        /\ state' = [state EXCEPT ![r] = session[s].oidc_auth_state]
    /\ pc' = [pc EXCEPT ![r] = "pop_nonce"]
    /\ response' = NoResponse
    /\ UNCHANGED <<config, session, since_init, nonce, stale>>

\* mutant: line 86 reads the nonce and does not remove it
MutCallbackGetNonce(r) ==
    /\ pc[r] = "pop_nonce"
    /\ nonce' = [nonce EXCEPT ![r] = session[sid[r]].oidc_auth_nonce]
    /\ since_init' = [since_init EXCEPT ![sid[r]] =
                         Count(@, session[sid[r]].oidc_auth_nonce, NoResponse)]
    /\ pc' = [pc EXCEPT ![r] = "check"]
    /\ response' = NoResponse
    /\ UNCHANGED <<config, session, sid, state, stale>>

\* line 86
CallbackPopNonce(r) ==
    /\ pc[r] = "pop_nonce"
    /\ nonce' = [nonce EXCEPT ![r] = session[sid[r]].oidc_auth_nonce]
    /\ session' = [session EXCEPT ![sid[r]] = PopNonce(@)]
    /\ since_init' = [since_init EXCEPT ![sid[r]] =
                         Count(@, session[sid[r]].oidc_auth_nonce, NoResponse)]
    /\ pc' = [pc EXCEPT ![r] = "check"]
    /\ response' = NoResponse
    /\ UNCHANGED <<config, sid, state, stale>>

\* lines 91-105, and the request is over.  What a request does after an
\* authorization request that followed its pop is not counted in since_init
CallbackFinish(r) ==
    /\ pc[r] = "check"
    /\ \E params \in CallbackParams :
        \E answer \in Answers(nonce[r], params, state[r]) :
          LET resp == CallbackResponse(sid[r], nonce[r], params, state[r], answer) IN
          /\ session' = [session EXCEPT ![sid[r]] = Login(@, resp)]
          /\ response' = resp
          /\ since_init' = [since_init EXCEPT ![sid[r]] =
                               IF stale[r] THEN @ ELSE Count(@, None, resp)]
    /\ pc' = [pc EXCEPT ![r] = "idle"]
    /\ sid' = [sid EXCEPT ![r] = NoSession]
    /\ state' = [state EXCEPT ![r] = None]
    /\ nonce' = [nonce EXCEPT ![r] = None]
    /\ stale' = [stale EXCEPT ![r] = FALSE]
    /\ UNCHANGED config

\* ------------------------------------------------------ OIDCEndSessionView

\* where the end-session request redirects to
EndSessionRedirect ==
    IF PROVIDER_END_SESSION_ENDPOINT # None
    THEN [url |-> PROVIDER_END_SESSION_ENDPOINT,
          query |-> << <<"post_logout_redirect_uri", "LOGOUT_REDIRECT_URL">> >>]
    ELSE [url |-> "LOGOUT_REDIRECT_URL", query |-> <<>>]

\* mutant: the session is left as it is
MutKeepSession(sess) == sess

\* the local session state after the end-session request
ClearSession(sess) == EmptySession

EndSession(s) ==
    /\ session' = [session EXCEPT ![s] = ClearSession(@)]
    /\ response' = [NoResponse EXCEPT !.view = "end_session", !.sid = s,
                       !.url = EndSessionRedirect.url,
                       !.query = EndSessionRedirect.query]
    /\ UNCHANGED <<config, since_init, request_vars>>

\* ------------------------------------------------------------ environment

\* the session store clears or expires a session
SessionExpire(s) ==
    /\ session[s] # EmptySession
    /\ session' = [session EXCEPT ![s] = EmptySession]
    /\ response' = NoResponse
    /\ UNCHANGED <<config, since_init, request_vars>>

\* ---------------------------------------------------------- specification

Init ==
    /\ USE_NONCE \in BOOLEAN
    /\ PROVIDER_END_SESSION_ENDPOINT \in {None, "PROVIDER_END_SESSION_ENDPOINT"}
    /\ session = [s \in Sessions |-> EmptySession]
    /\ response = NoResponse
    /\ since_init = [s \in Sessions |-> NoHistory]
    /\ pc = [r \in Requests |-> "idle"]
    /\ sid = [r \in Requests |-> NoSession]
    /\ state = [r \in Requests |-> None]
    /\ nonce = [r \in Requests |-> None]
    /\ stale = [r \in Requests |-> FALSE]
    /\ superseded = [s \in Sessions |-> None]

\* requests handled one at a time
Next ==
    \/ \E s \in Sessions : AuthRequest(s) /\ UNCHANGED superseded
    \/ \E s \in Sessions : Callback(s) /\ UNCHANGED superseded
    \/ \E s \in Sessions : EndSession(s) /\ UNCHANGED superseded
    \/ \E s \in Sessions : SessionExpire(s) /\ UNCHANGED superseded

Spec == Init /\ [][Next]_vars

\* the callback requests of a session run concurrently, between them and
\* with the session's authorization requests and its expiry
NextConc ==
    \/ \E s \in ConcSessions : AuthRequest(s) /\ UNCHANGED superseded
    \/ \E r \in Requests : CallbackGetState(r) /\ UNCHANGED superseded
    \/ \E r \in Requests : CallbackPopNonce(r) /\ UNCHANGED superseded
    \/ \E r \in Requests : CallbackFinish(r) /\ UNCHANGED superseded
    \/ \E s \in ConcSessions : SessionExpire(s) /\ UNCHANGED superseded

SpecConc == Init /\ [][NextConc]_vars

\* history of the overwritten states: an authorization request of session s
\* that replaces a stored state by another value supersedes the old one
Supersede(s) ==
    superseded' = [superseded EXCEPT ![s] =
                     IF session[s].oidc_auth_state \notin {None, session'[s].oidc_auth_state}
                     THEN session[s].oidc_auth_state ELSE @]

\* the requests of a session, one at a time, with the history of its
\* overwritten states
NextSupersede ==
    \/ \E s \in TrackedSessions : AuthRequest(s) /\ Supersede(s)
    \/ \E s \in TrackedSessions : Callback(s) /\ UNCHANGED superseded
    \/ \E s \in TrackedSessions : EndSession(s) /\ UNCHANGED superseded
    \/ \E s \in TrackedSessions : SessionExpire(s) /\ UNCHANGED superseded

SpecSupersede == Init /\ [][NextSupersede]_vars

\* ------------------------------------------------------------------ claims

\* the stored state of the session the last response belongs to.  A
\* callback does not change it, so after a callback it is the value the
\* callback read
StoredState == session[response.sid].oidc_auth_state
IsCallback == response.view = "callback"
FailureRedirect ==
    /\ response.outcome = "failure"
    /\ response.url = "AUTHENTICATION_FAILURE_REDIRECT_URI"
    /\ response.login = None
SuccessRedirect ==
    /\ response.outcome = "success"
    /\ response.url = "AUTHENTICATION_REDIRECT_URI"
    /\ response.login = "active_user"

\* C1: a step logs a principal in (auth.login called, the session's user
\* set, the success redirect returned) only if it is a callback of that
\* session whose `state` parameter is given and equals the oidc_auth_state
\* the session held when the callback was handled.
C1_LoginOnlyOnMatchingState ==
    [][\A s \in Sessions :
        (\/ session'[s].user # None /\ session'[s].user # session[s].user
         \/ /\ response'.view = "callback" /\ response'.sid = s
            /\ (response'.outcome = "success" \/ response'.login # None))
        => /\ response'.view = "callback" /\ response'.sid = s
           /\ session[s].oidc_auth_state # None
           /\ response'.params.state = session[s].oidc_auth_state]_vars

\* C1 witness: a callback presenting the stored state has logged a user in
C1_Witness ==
    /\ IsCallback /\ SuccessRedirect
    /\ response.params.state = StoredState
    /\ session[response.sid].user = "active_user"

\* C2 as stated: a callback carrying a code and a state different from the
\* stored one always ends in SuspiciousOperation.
C2_MismatchAlwaysViolation ==
    (/\ IsCallback
     /\ StoredState # None
     /\ response.params.code # None
     /\ response.params.state \notin {None, StoredState})
    => response.outcome = "SuspiciousOperation"

\* C2 amended: a callback presenting a state different from the stored one
\* never logs in; it ends in SuspiciousOperation (no redirect) exactly when
\* it also carries a code and the nonce precondition holds (USE_NONCE off,
\* or the pop returned a nonce), and in the failure redirect otherwise.
C2_MismatchViolationUnderPrecondition ==
    (/\ IsCallback
     /\ StoredState # None
     /\ response.params.state \notin {None, StoredState})
    => /\ response.login = None /\ response.verifier = None
       /\ IF response.params.code # None /\ (~USE_NONCE \/ response.nonce # None)
          THEN response.outcome = "SuspiciousOperation" /\ response.url = None
          ELSE FailureRedirect

\* C2 witness: a mismatching callback with a code ended in SuspiciousOperation
C2_Witness ==
    /\ IsCallback
    /\ StoredState # None
    /\ response.params.code # None
    /\ response.params.state \notin {None, StoredState}
    /\ response.outcome = "SuspiciousOperation"

\* C3: a callback handled while the session holds no state ends in the
\* failure redirect whatever its parameters: no SuspiciousOperation, no
\* call of the verifier, no login.
C3_NoStoredStateFails ==
    (IsCallback /\ StoredState = None)
    => FailureRedirect /\ response.verifier = None

\* C3 witness: a callback with code and state, and nothing else against it,
\* was handled in a session without a stored state
C3_Witness ==
    /\ IsCallback /\ StoredState = None
    /\ ~USE_NONCE
    /\ response.params.code # None /\ response.params.state # None
    /\ FailureRedirect

\* C4: with USE_NONCE, between two authorization requests of a session at
\* most one callback pops a nonce, at most one calls the verifier and at most
\* one logs in; a callback whose pop returned nothing ends in the failure
\* redirect without calling the verifier.
C4_NonceSingleUse ==
    USE_NONCE =>
        /\ \A s \in Sessions :
            /\ since_init[s].nonce_reads <= 1
            /\ since_init[s].verifier_calls <= 1
            /\ since_init[s].logins <= 1
        /\ (IsCallback /\ response.nonce = None)
            => FailureRedirect /\ response.verifier = None

\* C4 witness: after a callback that consumed the nonce and called the
\* verifier, a second callback with code and matching state found no nonce
C4_Witness ==
    /\ USE_NONCE /\ IsCallback
    /\ since_init[response.sid].nonce_reads = 1
    /\ since_init[response.sid].verifier_calls = 1
    /\ response.nonce = None
    /\ response.params.code # None
    /\ response.params.state = StoredState
    /\ FailureRedirect

\* C5: with USE_NONCE, of the concurrent callbacks of a session that pop
\* after the same authorization request at most one gets the nonce, at most
\* one calls the verifier and at most one logs in; a callback whose pop
\* returned nothing ends in the failure redirect.
C5_ConcurrentPopOneWinner ==
    USE_NONCE =>
        /\ \A s \in Sessions :
            /\ since_init[s].nonce_reads <= 1
            /\ since_init[s].verifier_calls <= 1
            /\ since_init[s].logins <= 1
        /\ \A r1, r2 \in Requests :
            (/\ r1 # r2
             /\ pc[r1] = "check" /\ pc[r2] = "check"
             /\ sid[r1] = sid[r2]
             /\ ~stale[r1] /\ ~stale[r2])
            => nonce[r1] = None \/ nonce[r2] = None
        /\ (IsCallback /\ response.nonce = None)
            => FailureRedirect /\ response.verifier = None

\* C5 witness: two callbacks were in flight; the one that popped second has
\* ended in the failure redirect, with code and matching state, while the
\* one that popped the nonce is still before its check
C5_Witness ==
    /\ USE_NONCE /\ IsCallback
    /\ response.nonce = None
    /\ response.params.code # None
    /\ response.params.state = StoredState
    /\ FailureRedirect
    /\ \E r \in Requests :
        /\ pc[r] = "check" /\ sid[r] = response.sid
        /\ nonce[r] # None /\ ~stale[r]
        /\ state[r] = StoredState

\* C6: without USE_NONCE no session ever holds a nonce and no authorization
\* redirect carries one; a callback with a code and the stored state reaches
\* the verifier, and logs in and redirects to the success URL when the
\* verifier returns an active user.
C6_NonceToggle ==
    ~USE_NONCE =>
        /\ \A s \in Sessions : session[s].oidc_auth_nonce = None
        /\ response.view = "auth_request" => "nonce" \notin QueryKeys(response.query)
        /\ (/\ IsCallback
            /\ response.params.code # None
            /\ StoredState # None
            /\ response.params.state = StoredState)
            => /\ response.nonce = None
               /\ response.verifier # None
               /\ response.verifier = "active_user"
                    => SuccessRedirect /\ session[response.sid].user = "active_user"

\* C6 witness: without USE_NONCE a callback has logged a user in
C6_Witness ==
    /\ ~USE_NONCE /\ IsCallback
    /\ response.nonce = None
    /\ response.params.state = StoredState
    /\ SuccessRedirect

\* C7: a callback that passes the preconditions and the state comparison
\* calls the verifier; it logs in and redirects to the success URL if and
\* only if the verifier returns an active user, and ends in the failure
\* redirect without login when the verifier returns no user or an inactive
\* one.
C7_PrincipalGating ==
    (/\ IsCallback
     /\ ~USE_NONCE \/ response.nonce # None
     /\ response.params.code # None
     /\ StoredState # None
     /\ response.params.state = StoredState)
    => /\ response.verifier # None
       /\ response.outcome = "success" <=> response.verifier = "active_user"
       /\ response.verifier = "active_user"
            => SuccessRedirect /\ session[response.sid].user = "active_user"
       /\ response.verifier \in {"no_user", "inactive_user"} => FailureRedirect

\* C7 witness: the verifier returned an inactive user and the callback ended
\* in the failure redirect
C7_Witness ==
    /\ IsCallback
    /\ response.verifier = "inactive_user"
    /\ FailureRedirect

\* C8: after an authorization request the redirect goes to the authorization
\* endpoint, its state is the value now stored under oidc_auth_state, it
\* carries a nonce iff USE_NONCE, that nonce is the value now stored under
\* oidc_auth_nonce, and the other parameters are exactly scope,
\* response_type=code, client_id and the absolute callback URL.
C8_RedirectMatchesSession ==
    response.view = "auth_request" =>
        LET q == response.query
            s == response.sid
        IN
        /\ response.url = "PROVIDER_AUTHORIZATION_ENDPOINT"
        /\ Len(q) = Cardinality(QueryKeys(q))
        /\ QueryKeys(q) \ {"nonce"} =
              {"scope", "response_type", "client_id", "redirect_uri", "state"}
        /\ QueryValue(q, "scope") = "SCOPES"
        /\ QueryValue(q, "response_type") = "code"
        /\ QueryValue(q, "client_id") = "CLIENT_ID"
        /\ QueryValue(q, "redirect_uri") = "absolute:oidc_auth_callback"
        /\ QueryValue(q, "state") = session[s].oidc_auth_state
        /\ "nonce" \in QueryKeys(q) <=> USE_NONCE
        /\ USE_NONCE => QueryValue(q, "nonce") = session[s].oidc_auth_nonce
        /\ ~USE_NONCE => session[s].oidc_auth_nonce = None

\* C8 witness: an authorization request with USE_NONCE stored a nonce
\* different from the state
C8_Witness ==
    /\ response.view = "auth_request"
    /\ USE_NONCE
    /\ session[response.sid].oidc_auth_nonce # None
    /\ session[response.sid].oidc_auth_nonce # session[response.sid].oidc_auth_state

\* C9 as stated: when the verifier call fails by raising, the callback ends
\* in the failure redirect, without login and without an unhandled error.
C9_VerifierFailureRedirects ==
    (IsCallback /\ response.verifier = "raises") => FailureRedirect

PreconditionHeld ==
    /\ ~USE_NONCE \/ response.nonce # None
    /\ response.params.code # None /\ response.params.state # None
    /\ StoredState # None

\* C11: after a callback that ended in the success redirect, the failure
\* redirect or SuspiciousOperation, whatever its parameters and whatever
\* USE_NONCE is, its session holds no nonce.
C11_NonceRemovedByEveryCallback ==
    (IsCallback /\ response.outcome \in {"success", "failure", "SuspiciousOperation"})
    => session[response.sid].oidc_auth_nonce = None

\* C11 witness: a callback that popped a nonce ended in SuspiciousOperation
C11_Witness ==
    /\ IsCallback
    /\ response.nonce # None
    /\ response.outcome = "SuspiciousOperation"
    /\ session[response.sid].oidc_auth_nonce = None

\* C12: a callback for which the combined precondition fails ends in the
\* failure redirect without calling the verifier, also when its state
\* differs from the stored one; SuspiciousOperation is raised only when the
\* precondition holds and the states differ.
C12_StateComparedOnlyUnderPrecondition ==
    IsCallback =>
        /\ ~PreconditionHeld => FailureRedirect /\ response.verifier = None
        /\ response.outcome = "SuspiciousOperation"
            => PreconditionHeld /\ response.params.state # StoredState

\* C12 witness: with USE_NONCE and the nonce already gone, a callback with
\* a code and a state different from the stored one got the failure redirect
C12_Witness ==
    /\ IsCallback /\ USE_NONCE
    /\ response.nonce = None
    /\ StoredState # None
    /\ response.params.code # None
    /\ response.params.state \notin {None, StoredState}
    /\ FailureRedirect

\* C13: a callback calls the verifier only when the combined precondition
\* held and the states were equal, never when it ends in SuspiciousOperation
\* or fails the precondition, and at most once; it logs in only the active
\* user its own verifier call returned.
C13_VerifierAfterChecks ==
    [][response'.view = "callback" =>
        LET s == response'.sid
            held == /\ ~USE_NONCE \/ session[s].oidc_auth_nonce # None
                    /\ response'.params.code # None
                    /\ response'.params.state # None
                    /\ session[s].oidc_auth_state # None
        IN
        /\ response'.verifier # None
            => held /\ response'.params.state = session[s].oidc_auth_state
        /\ response'.outcome = "SuspiciousOperation" => response'.verifier = None
        /\ since_init'[s].verifier_calls <= since_init[s].verifier_calls + 1
        /\ since_init'[s].verifier_calls # since_init[s].verifier_calls
            => response'.verifier # None
        /\ response'.login # None
            => response'.login = response'.verifier /\ response'.verifier = "active_user"
        /\ session'[s].user # session[s].user
            => response'.login # None /\ session'[s].user = response'.verifier]_vars

\* C13 witness: a callback called the verifier, which returned an active
\* user, and logged that user in
C13_Witness ==
    /\ IsCallback /\ PreconditionHeld
    /\ response.params.state = StoredState
    /\ response.verifier = "active_user"
    /\ response.login = "active_user"
    /\ since_init[response.sid].verifier_calls = 1

\* C14: a callback leaves the stored state as it is, whatever its outcome;
\* so without USE_NONCE a callback that follows another one of the same
\* authorization request, with a code and the stored state, calls the
\* verifier again and logs in again when the verifier returns an active user.
C14_StateKeptReplayReachesVerifier ==
    [][response'.view = "callback" =>
        LET s == response'.sid IN
        /\ session'[s].oidc_auth_state = session[s].oidc_auth_state
        /\ (/\ ~USE_NONCE
            /\ since_init[s].verifier_calls >= 1
            /\ response'.params.code # None
            /\ session[s].oidc_auth_state # None
            /\ response'.params.state = session[s].oidc_auth_state)
            => /\ response'.verifier # None
               /\ response'.verifier = "active_user"
                    => /\ response'.outcome = "success"
                       /\ session'[s].user = "active_user"]_vars

\* C14 witness: without USE_NONCE two callbacks of the same authorization
\* request have called the verifier and logged in
C14_Witness ==
    /\ ~USE_NONCE /\ IsCallback
    /\ StoredState # None
    /\ response.params.state = StoredState
    /\ SuccessRedirect
    /\ since_init[response.sid].verifier_calls >= 2
    /\ since_init[response.sid].logins >= 2

\* C15: an authorization request replaces the stored state (and, with
\* USE_NONCE, the stored nonce) by the values of its own redirect; a later
\* callback presenting a state that an earlier authorization request of the
\* session stored and a later one overwrote, when it differs from the
\* stored one, does not log in.
C15_SupersededStateRejected ==
    /\ response.view = "auth_request" =>
        /\ session[response.sid].oidc_auth_state
              = QueryValue(response.query, "state")
        /\ USE_NONCE => session[response.sid].oidc_auth_nonce
                            = QueryValue(response.query, "nonce")
    /\ (/\ IsCallback
        /\ superseded[response.sid] # None
        /\ response.params.state = superseded[response.sid]
        /\ response.params.state # StoredState)
        => /\ response.login = None
           /\ response.verifier = None
           /\ response.outcome \in {"failure", "SuspiciousOperation"}

\* C15 witness: after two authorization requests with different states, a
\* callback with a code presented the overwritten state and was rejected
C15_Witness ==
    /\ IsCallback
    /\ StoredState # None
    /\ superseded[response.sid] \notin {None, StoredState}
    /\ response.params.state = superseded[response.sid]
    /\ response.params.code # None
    /\ response.outcome = "SuspiciousOperation"

\* C16: a callback that ends in the failure redirect or in
\* SuspiciousOperation changes nothing in its session but the nonce, which
\* it removes: the stored state and the authenticated user stay; an
\* authorization request leaves the authenticated user as it is.
C16_FailedCallbackFrame ==
    [][/\ (/\ response'.view = "callback"
           /\ response'.outcome \in {"failure", "SuspiciousOperation"})
          => session'[response'.sid] =
                [session[response'.sid] EXCEPT !.oidc_auth_nonce = None]
       /\ response'.view = "auth_request"
          => session'[response'.sid].user = session[response'.sid].user]_vars

\* C16 witness: in a session with an authenticated user a callback popped
\* a nonce and ended in the failure redirect; the user is still there
C16_Witness ==
    /\ IsCallback /\ FailureRedirect
    /\ response.nonce # None
    /\ StoredState # None
    /\ session[response.sid].user = "active_user"
    /\ session[response.sid].oidc_auth_nonce = None

\* C17: an authorization request leaves its session with a stored state
\* (and, with USE_NONCE, a stored nonce), whatever the session held before;
\* a callback of that session handled right after it, with a code and the
\* stored state, calls the verifier, and when the verifier returns an active
\* user it logs in and redirects to the success URL.
C17_FlowRestartable ==
    /\ [](response.view = "auth_request" =>
            /\ session[response.sid].oidc_auth_state # None
            /\ USE_NONCE => session[response.sid].oidc_auth_nonce # None)
    /\ [][(/\ response.view = "auth_request"
           /\ response'.view = "callback"
           /\ response'.sid = response.sid
           /\ response'.params.code # None
           /\ response'.params.state = session[response.sid].oidc_auth_state)
          => /\ response'.verifier # None
             /\ response'.verifier = "active_user"
                  => /\ response'.outcome = "success"
                     /\ response'.url = "AUTHENTICATION_REDIRECT_URI"
                     /\ session'[response.sid].user = "active_user"]_vars

\* C17 witness: with USE_NONCE, in a session where an earlier authorization
\* request had been superseded, a callback has logged in
C17_Witness ==
    /\ USE_NONCE /\ IsCallback
    /\ superseded[response.sid] # None
    /\ response.nonce # None
    /\ SuccessRedirect
    /\ session[response.sid].user = "active_user"

\* C18: a request of a session leaves the other sessions' stored state,
\* nonce and user as they are; a callback reads the state and the nonce of
\* its own session, and its outcome and its effect on its session are
\* determined by them, its parameters, USE_NONCE and the verifier's answer.
C18_SessionIsolation ==
    [][/\ \A t \in Sessions :
            (response'.view # None /\ t # response'.sid)
            => session'[t] = session[t] /\ since_init'[t] = since_init[t]
       /\ Cardinality({t \in Sessions : session'[t] # session[t]}) <= 1
       /\ response'.view = "callback" =>
            LET own == session[response'.sid]
                p == response'.params
                held == /\ ~USE_NONCE \/ own.oidc_auth_nonce # None
                        /\ p.code # None /\ p.state # None
                        /\ own.oidc_auth_state # None
                out == IF ~held THEN "failure"
                       ELSE IF p.state # own.oidc_auth_state THEN "SuspiciousOperation"
                       ELSE IF response'.verifier = "active_user" THEN "success"
                       ELSE IF response'.verifier = "raises" THEN "exception"
                       ELSE "failure"
            IN
            /\ response'.state = own.oidc_auth_state
            /\ response'.nonce = own.oidc_auth_nonce
            /\ response'.outcome = out
            /\ session'[response'.sid] =
                  [oidc_auth_state |-> own.oidc_auth_state,
                   oidc_auth_nonce |-> None,
                   user |-> IF out = "success" THEN "active_user" ELSE own.user]]_vars

\* C18 witness: a callback of one session logged in while the other
\* session holds a different state and no user
C18_Witness ==
    /\ IsCallback /\ SuccessRedirect
    /\ \E t \in Sessions :
        /\ t # response.sid
        /\ session[t].oidc_auth_state \notin {None, StoredState}
        /\ session[t].user = None

=============================================================================
